---- MODULE Spec2Model ----
(***************************************************************************)
(* Model of jacob/algorithms/trees.py: TreeNode, link_nodes,               *)
(* populate_hierarchy and TreeTraverser.process_branch.                    *)
(*                                                                         *)
(* Nodes are the integers 1..n; the absent reference (Python None) is 0.   *)
(* Every field of TreeNode is a function from the created nodes to its     *)
(* value.  Python list positions are 0-based in the code; sequences here   *)
(* are 1-based, so nodes[i] of the code is nodes[i + 1] of the model.      *)
(***************************************************************************)
EXTENDS Integers, Sequences, FiniteSets

VARIABLES
    depth,          \* TreeNode._depth
    parent,         \* TreeNode._parent
    children,       \* TreeNode._children
    previous_node,  \* TreeNode.previous_node
    next_node,      \* TreeNode.next_node
    nodes,          \* the list argument of the running / last call
    pc,             \* position of the caller
    calls,          \* number of link_nodes calls made so far
    relinked,       \* the last link_nodes call got the same list as the one before
    i,              \* populate_hierarchy: 0-based index of the loop
    parent_stack,   \* populate_hierarchy: the local parent_stack
    error,          \* exception that ended populate_hierarchy, or "none"
    error_delta,    \* depth_delta carried by the ValueError message
    max_depth,      \* TreeTraverser.max_depth
    whitelist,      \* process_branch: whitelist ([given |-> FALSE] is None)
    blacklist,      \* process_branch: blacklist ([given |-> FALSE] is None)
    stop_on,        \* the nodes on which the visitor's process_leaf returns True
    frames,         \* the pending process_branch calls, outermost first
    events,         \* what the walk did so far: process_leaf calls and depth breaks
    seen,           \* the number of nodes the loops of the walk have enumerated
    call,           \* the last TreeNode mutator call: its arguments, its result and
                    \* the fields of all nodes as they were before it
    passes          \* number of populate_hierarchy calls that returned normally

vars == <<depth, parent, children, previous_node, next_node, nodes, pc,
          calls, relinked, i, parent_stack, error, error_delta,
          max_depth, whitelist, blacklist, stop_on, frames, events, seen, call,
          passes>>

nodeFields == <<depth, parent, children, previous_node, next_node>>
buildVars == <<i, parent_stack, error, error_delta, passes>>
walkVars == <<max_depth, whitelist, blacklist, stop_on, frames, events, seen>>

\* ------------------------------------------------------------------ bounds
MaxLen == 5         \* longest list handed to link_nodes / populate_hierarchy
MaxDepth == 3       \* largest depth a node is created with
MaxLinked == 3      \* nodes in the link_nodes-only specification
MaxCalls == 3       \* link_nodes calls in the link_nodes-only specification
MaxWalkLen == 5     \* longest list built into a forest that is then walked
MaxWalkDepth == 2   \* largest depth of a node of a walked forest
MaxCeiling == 2     \* largest bounded max_depth a traverser is created with
MaxFilterLen == 4   \* longest list built into a forest that is walked with filters
MaxAgainLen == 4    \* longest list populate_hierarchy is called on repeatedly
MaxPasses == 3      \* populate_hierarchy calls on one list
MaxPartLen == 3     \* longest list built after linking only a part of it
MaxNodes == 3       \* nodes in the specification of the TreeNode mutators
MaxChildren == 3    \* longest children list a node is constructed with there

\* ------------------------------------------------------------------ Python
None == 0

\* max_depth: int = -1, the value that means no ceiling
Unbounded == -1

\* a list index that does not raise IndexError (negative indices wrap)
InRange(s, k) == -Len(s) <= k /\ k < Len(s)

\* s[k] of Python for an index in range
PyGet(s, k) == IF k >= 0 THEN s[k + 1] ELSE s[Len(s) + k + 1]

\* ------------------------------------------------------------------ TreeNode
\* TreeNode(node_id, depth): no parent, no children, no links
FreshParent(n) == [k \in 1..n |-> None]
FreshChildren(n) == [k \in 1..n |-> <<>>]
FreshLink(n) == [k \in 1..n |-> None]

\* ------------------------------------------------------------------ link_nodes
\* try: node.previous_node = nodes[i - 1]  except IndexError: pass
\* links is the record of the two link fields of all nodes
LinkPrevious(L, k, links) ==
    IF InRange(L, k - 1)
    THEN [links EXCEPT !.previous_node[L[k + 1]] = PyGet(L, k - 1)]
    ELSE links

\* the wrong attribute: the successor's own previous link is stored as the next link
LinkNextViaPrevious(L, k, links) ==
    IF InRange(L, k + 1)
    THEN [links EXCEPT !.next_node[L[k + 1]] = links.previous_node[PyGet(L, k + 1)]]
    ELSE links

\* try: node.next_node = nodes[i + 1]  except IndexError: pass
LinkNext(L, k, links) ==
    IF InRange(L, k + 1)
    THEN [links EXCEPT !.next_node[L[k + 1]] = PyGet(L, k + 1)]
    ELSE links

\* for i, node in enumerate(nodes): the two assignments in turn
RECURSIVE link_loop(_, _, _)
link_loop(L, k, links) ==
    IF k >= Len(L) THEN links
    ELSE link_loop(L, k + 1, LinkNext(L, k, LinkPrevious(L, k, links)))

link_nodes(L, links) == link_loop(L, 0, links)

\* ------------------------------------------------- specification SpecLink
\* link_nodes alone, called up to MaxCalls times on lists of distinct nodes
\* drawn from MaxLinked nodes that start fresh.
LinkUniverse == 1..MaxLinked

NoFilter == [given |-> FALSE, items |-> {}]

\* no mutator has been called
NoCall ==
    [op |-> "none", self |-> None, node |-> None, existing |-> None,
     direction |-> 0, index |-> 0, ret |-> 0, raised |-> "none",
     before |-> [depth |-> <<>>, parent |-> <<>>, children |-> <<>>,
                 previous_node |-> <<>>, next_node |-> <<>>]]

\* the walk fields before any walk
NoWalk ==
    /\ max_depth = Unbounded
    /\ whitelist = NoFilter
    /\ blacklist = NoFilter
    /\ stop_on = {}
    /\ frames = <<>>
    /\ events = <<>>
    /\ seen = 0

Lists(S) ==
    UNION {{s \in [1..n -> S] : \A a, b \in 1..n : a # b => s[a] # s[b]} :
           n \in 0..Cardinality(S)}

InitLink ==
    /\ depth = [k \in LinkUniverse |-> 0]
    /\ parent = FreshParent(MaxLinked)
    /\ children = FreshChildren(MaxLinked)
    /\ previous_node = FreshLink(MaxLinked)
    /\ next_node = FreshLink(MaxLinked)
    /\ nodes = <<>>
    /\ pc = "start"
    /\ calls = 0
    /\ relinked = FALSE
    /\ i = 0
    /\ parent_stack = <<>>
    /\ error = "none"
    /\ error_delta = 0
    /\ passes = 0
    /\ NoWalk
    /\ call = NoCall

CallLinkNodes(L) ==
    LET r == link_nodes(L, [previous_node |-> previous_node, next_node |-> next_node])
    IN  /\ previous_node' = r.previous_node
        /\ next_node' = r.next_node
        /\ nodes' = L
        /\ pc' = "linked"
        /\ calls' = calls + 1
        /\ relinked' = (calls >= 1 /\ L = nodes)
        /\ UNCHANGED <<depth, parent, children>>
        /\ UNCHANGED buildVars
        /\ UNCHANGED walkVars
        /\ UNCHANGED call

LinkAny ==
    /\ calls < MaxCalls
    /\ \E L \in Lists(LinkUniverse) : CallLinkNodes(L)

NextLink == LinkAny

SpecLink == InitLink /\ [][NextLink]_vars

\* ------------------------------------------------------------------ TreeNode mutators
\* the call with its receiver and its argument exchanged
ChangeParentOfParent(par, node, new_parent) == [par EXCEPT ![new_parent] = node]

\* TreeNode.change_parent: self._parent = new_parent
change_parent(par, node, new_parent) == [par EXCEPT ![node] = new_parent]

\* the child put at the front of the list
PrependChild(ch, node, child) == [ch EXCEPT ![node] = <<child>> \o @]

\* TreeNode.append_child: self._children.append(child)
append_child(ch, node, child) == [ch EXCEPT ![node] = Append(@, child)]

\* list.insert(index, x): a negative index counts from the end, and an index
\* beyond either end is clamped to that end
py_insert(s, index, x) ==
    LET shifted == IF index < 0 THEN index + Len(s) ELSE index
        at == IF shifted < 0 THEN 0 ELSE IF shifted > Len(s) THEN Len(s) ELSE shifted
    IN  SubSeq(s, 1, at) \o <<x>> \o SubSeq(s, at + 1, Len(s))

\* TreeNode.insert_child: self._children.insert(index, node)
insert_child(ch, self, index, node) == [ch EXCEPT ![self] = py_insert(@, index, node)]

\* the 0-based positions of the children of self that equal existing_node
\* (TreeNode.__eq__ compares node_id; the nodes here are their ids)
Matches(ch, self, existing_node) ==
    {k \in 0..(Len(ch[self]) - 1) : ch[self][k + 1] = existing_node}

\* a miss that falls back to appending the node
InsertAdjacentOrAppend(ch, self, existing_node, direction, node) ==
    IF Matches(ch, self, existing_node) # {}
    THEN LET first == CHOOSE k \in Matches(ch, self, existing_node) :
                          \A m \in Matches(ch, self, existing_node) : k <= m
         IN  [children |-> insert_child(ch, self, first + direction, node),
              ret |-> first + direction]
    ELSE [children |-> [ch EXCEPT ![self] = Append(@, node)], ret |-> -1]

\* TreeNode.insert_child_adjacent: at the first child equal to existing_node,
\* insert at i + direction and return that index; return -1 when none is
insert_child_adjacent(ch, self, existing_node, direction, node) ==
    IF Matches(ch, self, existing_node) # {}
    THEN LET first == CHOOSE k \in Matches(ch, self, existing_node) :
                          \A m \in Matches(ch, self, existing_node) : k <= m
         IN  [children |-> insert_child(ch, self, first + direction, node),
              ret |-> first + direction]
    ELSE [children |-> ch, ret |-> -1]

\* TreeNode.remove_child: self._children.remove(child) takes out the first
\* child equal to child and raises ValueError when there is none
remove_child(ch, self, child) ==
    IF Matches(ch, self, child) # {}
    THEN LET first == CHOOSE k \in Matches(ch, self, child) :
                          \A m \in Matches(ch, self, child) : k <= m
         IN  [children |-> [ch EXCEPT ![self] = SubSeq(@, 1, first)
                                                \o SubSeq(@, first + 2, Len(@))],
              raised |-> "none"]
    ELSE [children |-> ch, raised |-> "ValueError"]

\* the new depth written to every node
ChangeDepthOfAll(dp, self, new_depth) == [k \in DOMAIN dp |-> new_depth]

\* TreeNode.change_depth: self._depth = new_depth
change_depth(dp, self, new_depth) == [dp EXCEPT ![self] = new_depth]

\* ------------------------------------------------------------------ populate_hierarchy
\* a missing predecessor counted as one of depth 0
DepthDeltaFromZero(node, dp, pv) ==
    IF pv[node] # None THEN dp[node] - dp[pv[node]] ELSE dp[node]

\* node.depth - node.previous_node.depth if node.previous_node is not None else 1
depth_delta(node, dp, pv) ==
    IF pv[node] # None THEN dp[node] - dp[pv[node]] ELSE 1

\* the stop of the slice written without the "-1 +": one pop too few
DelReverseSliceShort(s, stop) ==
    LET len == Len(s)
        lo == IF stop + 1 + len < 0 THEN -1 ELSE stop + 1 + len
    IN  SubSeq(s, 1, IF lo + 1 > len THEN len ELSE lo + 1)

\* del s[-1:stop:-1] for a negative stop: the slice runs from the last index
\* down to (not including) stop + len, clamped at -1; those entries go
DelReverseSlice(s, stop) ==
    LET len == Len(s)
        lo == IF stop + len < 0 THEN -1 ELSE stop + len
    IN  SubSeq(s, 1, lo + 1)

\* every positive delta taken as "child": the else branch is lost
BranchLax(delta) ==
    IF delta < 0 THEN "ascend" ELSE IF delta = 0 THEN "same" ELSE "child"

\* the if / elif / elif / else on depth_delta
Branch(delta) ==
    IF delta < 0 THEN "ascend"
    ELSE IF delta = 0 THEN "same"
    ELSE IF delta = 1 THEN "child"
    ELSE "invalid"

\* the guard against duplicate roots inverted: only roots are pushed
ChildParentPushRoot(stack, node, dp, pv) ==
    LET p == pv[node]
    IN  IF p = None
        THEN [parent_stack |-> stack, parent |-> None, error |-> "AttributeError"]
        ELSE [parent_stack |-> IF dp[p] = 0 THEN Append(stack, p) ELSE stack,
              parent |-> p, error |-> "none"]

\* the same-depth branch taking the predecessor instead of the stack top
SameParentPrevious(stack, node, pv) ==
    [parent_stack |-> stack, parent |-> pv[node], error |-> "none"]

\* elif depth_delta == 0: parent = parent_stack[-1]
SameParent(stack, node, pv) ==
    IF InRange(stack, -1)
    THEN [parent_stack |-> stack, parent |-> PyGet(stack, -1), error |-> "none"]
    ELSE [parent_stack |-> stack, parent |-> None, error |-> "IndexError"]

\* the ascent reading the bottom of the stack instead of its top
AscendToBottom(stack, delta) ==
    LET s2 == DelReverseSlice(stack, -1 + delta)
    IN  IF InRange(s2, 0)
        THEN [parent_stack |-> s2, parent |-> PyGet(s2, 0), error |-> "none"]
        ELSE [parent_stack |-> s2, parent |-> None, error |-> "IndexError"]

\* if depth_delta < 0: del parent_stack[-1:(-1 + depth_delta):-1]; parent = parent_stack[-1]
AscendParent(stack, delta) ==
    LET s2 == DelReverseSlice(stack, -1 + delta)
    IN  IF InRange(s2, -1)
        THEN [parent_stack |-> s2, parent |-> PyGet(s2, -1), error |-> "none"]
        ELSE [parent_stack |-> s2, parent |-> None, error |-> "IndexError"]

\* elif depth_delta == 1: parent = node.previous_node; if parent.depth: push it
ChildParent(stack, node, dp, pv) ==
    LET p == pv[node]
    IN  IF p = None
        THEN [parent_stack |-> stack, parent |-> None, error |-> "AttributeError"]
        ELSE [parent_stack |-> IF dp[p] # 0 THEN Append(stack, p) ELSE stack,
              parent |-> p, error |-> "none"]

\* the body of the loop for a node of nonzero depth, up to the choice of parent
choose_parent(stack, node, dp, pv) ==
    LET delta == depth_delta(node, dp, pv)
        b == Branch(delta)
    IN  IF b = "ascend" THEN AscendParent(stack, delta)
        ELSE IF b = "same" THEN SameParent(stack, node, pv)
        ELSE IF b = "child" THEN ChildParent(stack, node, dp, pv)
        ELSE [parent_stack |-> stack, parent |-> None, error |-> "ValueError"]

\* a root pushed onto the stack instead of replacing it
PopulateIterKeepStack(st, L, dp, pv) ==
    LET node == L[st.i + 1]
    IN  IF dp[node] = 0
        THEN [st EXCEPT !.parent_stack = Append(@, node), !.i = @ + 1]
        ELSE LET c == choose_parent(st.parent_stack, node, dp, pv)
             IN  IF c.error # "none"
                 THEN [st EXCEPT !.parent_stack = c.parent_stack,
                                 !.error = c.error,
                                 !.error_delta = IF c.error = "ValueError"
                                                 THEN depth_delta(node, dp, pv)
                                                 ELSE 0]
                 ELSE [st EXCEPT !.parent_stack = c.parent_stack,
                                 !.parent = change_parent(@, node, c.parent),
                                 !.children = append_child(@, c.parent, node),
                                 !.i = @ + 1]

\* one iteration of "for i, node in enumerate(nodes)"; st holds the fields the
\* loop reads and writes: parent, children, parent_stack, i, error, error_delta
populate_iter(st, L, dp, pv) ==
    LET node == L[st.i + 1]
    IN  IF dp[node] = 0
        THEN [st EXCEPT !.parent_stack = <<node>>, !.i = @ + 1]
        ELSE LET c == choose_parent(st.parent_stack, node, dp, pv)
             IN  IF c.error # "none"
                 THEN [st EXCEPT !.parent_stack = c.parent_stack,
                                 !.error = c.error,
                                 !.error_delta = IF c.error = "ValueError"
                                                 THEN depth_delta(node, dp, pv)
                                                 ELSE 0]
                 ELSE [st EXCEPT !.parent_stack = c.parent_stack,
                                 !.parent = change_parent(@, node, c.parent),
                                 !.children = append_child(@, c.parent, node),
                                 !.i = @ + 1]

\* ------------------------------------------------- specification Spec
\* n fresh nodes with any depths in 0..MaxDepth, in list order 1..n;
\* link_nodes(nodes), then populate_hierarchy(nodes) one loop iteration at a time.
Construct(maxlen, maxdepth) ==
    \E n \in 0..maxlen :
        /\ depth \in [1..n -> 0..maxdepth]
        /\ parent = FreshParent(n)
        /\ children = FreshChildren(n)
        /\ previous_node = FreshLink(n)
        /\ next_node = FreshLink(n)
        /\ nodes = [k \in 1..n |-> k]
        /\ pc = "start"
        /\ calls = 0
        /\ relinked = FALSE
        /\ i = 0
        /\ parent_stack = <<>>
        /\ error = "none"
        /\ error_delta = 0
        /\ passes = 0
        /\ NoWalk
        /\ call = NoCall

Init == Construct(MaxLen, MaxDepth)

LinkNodes ==
    /\ pc = "start"
    /\ CallLinkNodes(nodes)

PopulateBegin ==
    /\ pc = "linked"
    /\ pc' = "populating"
    /\ i' = 0
    /\ parent_stack' = <<>>
    /\ error' = "none"
    /\ error_delta' = 0
    /\ UNCHANGED <<nodeFields, nodes, calls, relinked>>
    /\ UNCHANGED <<walkVars, call, passes>>

PopulateStep ==
    /\ pc = "populating"
    /\ i < Len(nodes)
    /\ LET r == populate_iter([parent |-> parent, children |-> children,
                               parent_stack |-> parent_stack, i |-> i,
                               error |-> error, error_delta |-> error_delta],
                              nodes, depth, previous_node)
       IN  /\ parent' = r.parent
           /\ children' = r.children
           /\ parent_stack' = r.parent_stack
           /\ i' = r.i
           /\ error' = r.error
           /\ error_delta' = r.error_delta
           /\ pc' = IF r.error # "none" THEN "failed" ELSE "populating"
    /\ UNCHANGED <<depth, previous_node, next_node, nodes, calls, relinked>>
    /\ UNCHANGED <<walkVars, call, passes>>

PopulateEnd ==
    /\ pc = "populating"
    /\ i >= Len(nodes)
    /\ pc' = "done"
    /\ passes' = passes + 1
    /\ UNCHANGED <<nodeFields, nodes, calls, relinked>>
    /\ UNCHANGED <<i, parent_stack, error, error_delta>>
    /\ UNCHANGED <<walkVars, call>>

Next == LinkNodes \/ PopulateBegin \/ PopulateStep \/ PopulateEnd

Spec == Init /\ [][Next]_vars

\* ------------------------------------------------- specification SpecAgain
\* link_nodes once, then populate_hierarchy up to MaxPasses times on the same
\* list: a call after one that returned normally starts from the fields the
\* calls before it left.
\* a call that first empties every children list
PopulateAgainCleared ==
    /\ pc = "done"
    /\ passes < MaxPasses
    /\ pc' = "populating"
    /\ i' = 0
    /\ parent_stack' = <<>>
    /\ error' = "none"
    /\ error_delta' = 0
    /\ children' = [n \in DOMAIN children |-> <<>>]
    /\ UNCHANGED <<depth, parent, previous_node, next_node, nodes, calls, relinked>>
    /\ UNCHANGED <<walkVars, call, passes>>

\* populate_hierarchy(nodes) once more: parent_stack = [] and the loop starts over
PopulateAgain ==
    /\ pc = "done"
    /\ passes < MaxPasses
    /\ pc' = "populating"
    /\ i' = 0
    /\ parent_stack' = <<>>
    /\ error' = "none"
    /\ error_delta' = 0
    /\ UNCHANGED <<nodeFields, nodes, calls, relinked>>
    /\ UNCHANGED <<walkVars, call, passes>>

InitAgain == Construct(MaxAgainLen, MaxDepth)

NextAgain == Next \/ PopulateAgain

SpecAgain == InitAgain /\ [][NextAgain]_vars

\* ------------------------------------------------- specification SpecPart
\* populate_hierarchy called on a list of fresh nodes of which only a part
\* (positions a .. b, none when a > b) was passed to link_nodes, so that the
\* nodes outside the part have no previous link.
LinkPart ==
    /\ pc = "start"
    /\ \E a \in 1..(Len(nodes) + 1), b \in 0..Len(nodes) :
          LET r == link_nodes(SubSeq(nodes, a, b),
                              [previous_node |-> previous_node, next_node |-> next_node])
          IN  /\ previous_node' = r.previous_node
              /\ next_node' = r.next_node
    /\ pc' = "linked"
    /\ calls' = calls + 1
    /\ UNCHANGED <<depth, parent, children, nodes, relinked, buildVars, walkVars, call>>

InitPart == Construct(MaxPartLen, MaxDepth)

NextPart == LinkPart \/ PopulateBegin \/ PopulateStep \/ PopulateEnd

SpecPart == InitPart /\ [][NextPart]_vars

\* ------------------------------------------------------------------ TreeTraverser
\* is_parent mixed up with is_child: self._parent is not None
IsParentByParent(node, par, ch) == par[node] # None

\* TreeNode.is_parent: len(self._children), used for its truth value
is_parent(node, par, ch) == Len(ch[node]) # 0

\* iter_nodes: enumerate(nodes, start=start) gives start + k for the k-th node
iter_index(start, k) == start + k

\* the ceiling compared one too late
BeyondMaxDepthLate(md, idx) == md # Unbounded /\ idx > md + 1

\* if self.max_depth != -1 and i > self.max_depth
BeyondMaxDepth(md, idx) == md # Unbounded /\ idx > md

\* the blacklist test lost: only the whitelist is looked at
SkippedWhitelistOnly(node, wl, bl) == wl.given /\ node \notin wl.items

\* the two "continue" tests: absent from a given whitelist, or in a given blacklist
Skipped(node, wl, bl) ==
    \/ wl.given /\ node \notin wl.items
    \/ bl.given /\ node \in bl.items

\* the visitor: process_leaf is abstract, its result is set by the caller's subclass
process_leaf(idx, node, stops) == node \in stops

Pop(s) == SubSeq(s, 1, Len(s) - 1)

\* the innermost pending call moves on to its next node
Advance(fs) == [fs EXCEPT ![Len(fs)].k = @ + 1]

\* one step of the innermost process_branch call: the end of its loop, or one
\* iteration of "for i, node in self.iter_nodes(nodes, start=start)".
\* A frame is [nodes, k, start]: the list, the 0-based position of the next
\* node of the list and the start the call was given.  An event records, beside
\* the index and the node, how many nodes had been enumerated before (sn).
walk_step(fs, evs, sn, md, wl, bl, stops, par, ch) ==
    LET top == fs[Len(fs)]
        idx == iter_index(top.start, top.k)
        node == top.nodes[top.k + 1]
    IN  IF top.k >= Len(top.nodes)
        THEN [frames |-> Pop(fs), events |-> evs, seen |-> sn]
        ELSE IF BeyondMaxDepth(md, idx)
        THEN [frames |-> Pop(fs),
              events |-> Append(evs, [ev |-> "break", i |-> idx, node |-> node,
                                      ret |-> FALSE, level |-> Len(fs),
                                      seen |-> sn]),
              seen |-> sn + 1]
        ELSE IF Skipped(node, wl, bl)
        THEN [frames |-> Advance(fs), events |-> evs, seen |-> sn + 1]
        ELSE IF is_parent(node, par, ch)
        THEN [frames |-> Append(Advance(fs),
                                [nodes |-> ch[node], k |-> 0, start |-> idx]),
              events |-> evs, seen |-> sn + 1]
        ELSE LET r == process_leaf(idx, node, stops)
             IN  [frames |-> IF r THEN Pop(fs) ELSE Advance(fs),
                  events |-> Append(evs, [ev |-> "leaf", i |-> idx, node |-> node,
                                          ret |-> r, level |-> Len(fs),
                                          seen |-> sn]),
                  seen |-> sn + 1]

\* the depth-0 nodes of the list, in list order: the forest handed to the walk
RECURSIVE Roots(_, _)
Roots(L, dp) ==
    IF L = <<>> THEN <<>>
    ELSE IF dp[Head(L)] = 0 THEN <<Head(L)>> \o Roots(Tail(L), dp)
    ELSE Roots(Tail(L), dp)

\* traverser = Subclass(max_depth); traverser.process_branch(roots, wl, bl)
BeginWalk(md, wl, bl, stops) ==
    /\ pc = "done"
    /\ max_depth' = md
    /\ whitelist' = wl
    /\ blacklist' = bl
    /\ stop_on' = stops
    /\ frames' = <<[nodes |-> Roots(nodes, depth), k |-> 0, start |-> 0]>>
    /\ events' = <<>>
    /\ seen' = 0
    /\ pc' = "walking"
    /\ UNCHANGED <<nodeFields, nodes, calls, relinked, buildVars, call>>

\* a walk without filters: any ceiling, a visitor that stops on at most one node
StartWalk ==
    \E md \in {Unbounded} \cup (0..MaxCeiling) :
        \E stops \in {S \in SUBSET DOMAIN depth : Cardinality(S) <= 1} :
            BeginWalk(md, NoFilter, NoFilter, stops)

WalkStep ==
    /\ pc = "walking"
    /\ LET r == walk_step(frames, events, seen, max_depth, whitelist, blacklist,
                          stop_on, parent, children)
       IN  /\ frames' = r.frames
           /\ events' = r.events
           /\ seen' = r.seen
           /\ pc' = IF r.frames = <<>> THEN "walked" ELSE "walking"
    /\ UNCHANGED <<nodeFields, nodes, calls, relinked, buildVars, call>>
    /\ UNCHANGED <<max_depth, whitelist, blacklist, stop_on>>

\* ------------------------------------------------- specification SpecWalk
\* up to MaxWalkLen fresh nodes are linked and built into a forest as in Spec,
\* and a completed forest is walked once.
InitWalk == Construct(MaxWalkLen, MaxWalkDepth)

NextWalk == Next \/ StartWalk \/ WalkStep

SpecWalk == InitWalk /\ [][NextWalk]_vars

\* ------------------------------------------------- specification SpecFilter
\* up to MaxFilterLen fresh nodes are linked and built as in Spec, and a
\* completed forest is walked once without ceiling, with a whitelist (or none)
\* and a blacklist (or none) of its nodes and a visitor that never stops.
Filters(S) == {NoFilter} \cup {[given |-> TRUE, items |-> X] : X \in SUBSET S}

\* When both lists are given the blacklist is drawn from the whitelist's nodes:
\* a blacklisted node outside the whitelist is skipped by the whitelist test.
StartFilteredWalk ==
    \E wl \in Filters(DOMAIN depth) :
        \E bl \in Filters(IF wl.given THEN wl.items ELSE DOMAIN depth) :
            BeginWalk(Unbounded, wl, bl, {})

InitFilter == Construct(MaxFilterLen, MaxWalkDepth)

NextFilter == Next \/ StartFilteredWalk \/ WalkStep

SpecFilter == InitFilter /\ [][NextFilter]_vars

\* ------------------------------------------------- specification SpecNode
\* MaxNodes nodes; node 1 is constructed with any children list of up to
\* MaxChildren of the nodes, node 2 with or without node 1 as parent; then one
\* mutator is called on any node with any arguments.
NodeUniverse == 1..MaxNodes

ChildLists == UNION {[1..n -> NodeUniverse] : n \in 0..MaxChildren}

InitNode ==
    /\ children \in {[k \in NodeUniverse |-> IF k = 1 THEN c ELSE <<>>] : c \in ChildLists}
    /\ parent \in {[k \in NodeUniverse |-> IF k = 2 THEN p ELSE None] : p \in {None, 1}}
    /\ depth = [k \in NodeUniverse |-> IF parent[k] = None THEN 0 ELSE 1]
    /\ previous_node = FreshLink(MaxNodes)
    /\ next_node = FreshLink(MaxNodes)
    /\ nodes = <<>>
    /\ pc = "start"
    /\ calls = 0
    /\ relinked = FALSE
    /\ i = 0
    /\ parent_stack = <<>>
    /\ error = "none"
    /\ error_delta = 0
    /\ passes = 0
    /\ NoWalk
    /\ call = NoCall

Snapshot ==
    [depth |-> depth, parent |-> parent, children |-> children,
     previous_node |-> previous_node, next_node |-> next_node]

\* the record of a call on self; the arguments it does not take stay as in NoCall
Called(op, self) == [NoCall EXCEPT !.op = op, !.self = self, !.before = Snapshot]

Rest == <<previous_node, next_node, nodes, calls, relinked, buildVars, walkVars>>

CallInsertChild ==
    /\ pc = "start"
    /\ \E self \in NodeUniverse, node \in NodeUniverse,
          index \in (-MaxChildren - 1)..(MaxChildren + 1) :
          /\ children' = insert_child(children, self, index, node)
          /\ call' = [Called("insert_child", self) EXCEPT !.node = node, !.index = index]
    /\ pc' = "called"
    /\ UNCHANGED <<depth, parent, Rest>>

CallInsertChildAdjacent ==
    /\ pc = "start"
    /\ \E self \in NodeUniverse, existing \in NodeUniverse,
          direction \in {-1, 1}, node \in NodeUniverse :
          LET r == insert_child_adjacent(children, self, existing, direction, node)
          IN  /\ children' = r.children
              /\ call' = [Called("insert_child_adjacent", self) EXCEPT
                              !.node = node, !.existing = existing,
                              !.direction = direction, !.ret = r.ret]
    /\ pc' = "called"
    /\ UNCHANGED <<depth, parent, Rest>>

CallAppendChild ==
    /\ pc = "start"
    /\ \E self \in NodeUniverse, node \in NodeUniverse :
          /\ children' = append_child(children, self, node)
          /\ call' = [Called("append_child", self) EXCEPT !.node = node]
    /\ pc' = "called"
    /\ UNCHANGED <<depth, parent, Rest>>

CallRemoveChild ==
    /\ pc = "start"
    /\ \E self \in NodeUniverse, node \in NodeUniverse :
          LET r == remove_child(children, self, node)
          IN  /\ children' = r.children
              /\ call' = [Called("remove_child", self) EXCEPT
                              !.node = node, !.raised = r.raised]
    /\ pc' = "called"
    /\ UNCHANGED <<depth, parent, Rest>>

CallChangeParent ==
    /\ pc = "start"
    /\ \E self \in NodeUniverse, node \in NodeUniverse \cup {None} :
          /\ parent' = change_parent(parent, self, node)
          /\ call' = [Called("change_parent", self) EXCEPT !.node = node]
    /\ pc' = "called"
    /\ UNCHANGED <<depth, children, Rest>>

CallChangeDepth ==
    /\ pc = "start"
    /\ \E self \in NodeUniverse, new_depth \in 0..MaxDepth :
          /\ depth' = change_depth(depth, self, new_depth)
          /\ call' = [Called("change_depth", self) EXCEPT !.index = new_depth]
    /\ pc' = "called"
    /\ UNCHANGED <<parent, children, Rest>>

NextNode ==
    \/ CallInsertChild \/ CallInsertChildAdjacent \/ CallAppendChild
    \/ CallRemoveChild \/ CallChangeParent \/ CallChangeDepth

SpecNode == InitNode /\ [][NextNode]_vars

\* ================================================================== properties
\* the list has been linked and populate_hierarchy has run for k of its nodes
Processed(k) == pc \in {"populating", "failed", "done"} /\ k <= i

FirstDepthZero == Len(nodes) >= 1 /\ depth[nodes[1]] = 0

\* first depth 0 and every depth increase between neighbours is exactly +1
WellFormed ==
    /\ FirstDepthZero
    /\ \A k \in 2..Len(nodes) : depth[nodes[k]] - depth[nodes[k - 1]] <= 1

\* the positions before k that hold a node of depth d
Before(k, d) == {j \in 1..(k - 1) : depth[nodes[j]] = d}

Max(S) == CHOOSE m \in S : \A x \in S : x <= m
Min(S) == CHOOSE m \in S : \A x \in S : m <= x

\* C1: on a list with first depth 0 whose depth increases are all exactly +1,
\* link_nodes then populate_hierarchy never ends in an error, and every node
\* of depth d > 0 it has processed has as parent the nearest node before it in
\* the list whose depth is d - 1.
C1_OutlineParents ==
    WellFormed =>
        /\ error = "none" /\ pc # "failed"
        /\ \A k \in 1..Len(nodes) :
              (Processed(k) /\ depth[nodes[k]] > 0) =>
                  /\ Before(k, depth[nodes[k]] - 1) # {}
                  /\ parent[nodes[k]] = nodes[Max(Before(k, depth[nodes[k]] - 1))]

\* a completed well-formed build that ascends two levels at once to a non-root
C1_Witness ==
    /\ pc = "done" /\ WellFormed
    /\ \E k \in 2..Len(nodes) :
          depth[nodes[k]] > 0 /\ depth[nodes[k - 1]] - depth[nodes[k]] >= 2

\* C2: in every state of a build on fresh nodes of any non-negative depths,
\* completed, running or aborted, a node with a parent is exactly one level
\* deeper than that parent.
C2_ParentOneLevelUp ==
    \A n \in DOMAIN parent :
        parent[n] # None => depth[n] = depth[parent[n]] + 1

\* an aborted build on a list whose first depth is not 0 that linked some node
C2_Witness ==
    /\ pc = "failed"
    /\ Len(nodes) >= 1 /\ depth[nodes[1]] # 0
    /\ \E n \in DOMAIN parent : parent[n] # None

\* the k-th ancestor of n by parent references (None once the chain ends)
RECURSIVE Up(_, _)
Up(n, k) == IF k = 0 \/ n = None THEN n ELSE Up(parent[n], k - 1)

\* the nodes reachable from the nodes of S in at most k steps along children
RECURSIVE Down(_, _)
Down(S, k) ==
    IF k = 0 THEN S
    ELSE Down(S \cup UNION {{children[n][j] : j \in DOMAIN children[n]} : n \in S},
              k - 1)

ChildrenOf(n) == {children[n][j] : j \in DOMAIN children[n]}

\* C3: in every state of a build on fresh nodes of any non-negative depths
\* (first depth 0 or not, completed or aborted) no node is reachable from
\* itself, neither along children nor along parent references.
C3_NoCycle ==
    \A n \in DOMAIN parent :
        /\ n \notin Down(ChildrenOf(n), Cardinality(DOMAIN parent))
        /\ \A k \in 1..Cardinality(DOMAIN parent) : Up(n, k) # n

\* a completed build of three or more nodes whose first node, of nonzero depth,
\* was given the last node of the list as parent
C3_Witness ==
    /\ pc = "done" /\ Len(nodes) >= 3
    /\ depth[nodes[1]] # 0
    /\ parent[nodes[1]] = nodes[Len(nodes)]

\* the positions whose node has a nonzero depth that exceeds the depth of its
\* predecessor in the list by 2 or more
Jumps ==
    {k \in 2..Len(nodes) :
        depth[nodes[k]] # 0 /\ depth[nodes[k]] - depth[nodes[k - 1]] >= 2}

\* populate_hierarchy ended with ValueError at the first jump, carrying its delta
FailsAtFirstJump ==
    /\ pc # "done"
    /\ pc = "failed" =>
          /\ error = "ValueError"
          /\ i = Min(Jumps) - 1
          /\ error_delta = depth[nodes[Min(Jumps)]] - depth[nodes[Min(Jumps) - 1]]

NoJumpHasParent == \A k \in Jumps : parent[nodes[k]] = None

C5_PreviousLinks ==
    (calls = 1 /\ Len(nodes) >= 1) =>
        /\ previous_node[nodes[1]] = None
        /\ \A k \in 2..Len(nodes) : previous_node[nodes[k]] = nodes[k - 1]

\* C6: after link_nodes(L), whatever links the nodes carried before, every
\* node but the last has its successor as next link and the last has none.
C6_NextLinks ==
    (calls >= 1 /\ Len(nodes) >= 1) =>
        /\ \A k \in 1..(Len(nodes) - 1) : next_node[nodes[k]] = nodes[k + 1]
        /\ next_node[nodes[Len(nodes)]] = None

\* C7: a second link_nodes call on the list of the call before it leaves every
\* previous and next link as the first call left it.
C7_LinkIdempotent ==
    [][(calls >= 1 /\ calls' = calls + 1 /\ nodes' = nodes) =>
          (previous_node' = previous_node /\ next_node' = next_node)]_vars

\* link_nodes was just called a second time on the same list of all the nodes
C7_Witness ==
    /\ relinked /\ calls >= 2
    /\ Len(nodes) = Cardinality(DOMAIN previous_node)
    /\ previous_node[nodes[2]] = nodes[1] /\ next_node[nodes[1]] = nodes[2]

LeafCalls == {e \in DOMAIN events : events[e].ev = "leaf"}

\* C8: once process_leaf has returned true, process_branch makes no further
\* process_leaf call in the whole walk.
C8_StopEndsWalk ==
    \A a, b \in LeafCalls : (a < b) => ~events[a].ret

\* the forest built from A(0), B(1), C(2), D(1) as nodes 1, 2, 3, 4
ExampleForest == nodes = <<1, 2, 3, 4>> /\ depth = <<0, 1, 2, 1>>

RECURSIVE VisitedNodes(_)
VisitedNodes(evs) ==
    IF evs = <<>> THEN <<>>
    ELSE IF Head(evs).ev = "leaf" THEN <<Head(evs).node>> \o VisitedNodes(Tail(evs))
    ELSE VisitedNodes(Tail(evs))

\* C9: process_leaf is only ever called on a node without children, and the
\* unbounded, unfiltered walk of the forest of A(0), B(1), C(2), D(1) with a
\* visitor that always returns false visits exactly C then D.
C9_LeavesOnly ==
    /\ \A e \in LeafCalls : children[events[e].node] = <<>>
    /\ (/\ ExampleForest /\ pc = "walked"
        /\ max_depth = Unbounded /\ stop_on = {}
        /\ ~whitelist.given /\ ~blacklist.given)
           => VisitedNodes(events) = <<3, 4>>

\* that walk of the example forest, finished after two process_leaf calls
C9_Witness ==
    /\ ExampleForest /\ pc = "walked"
    /\ max_depth = Unbounded /\ stop_on = {}
    /\ ~whitelist.given /\ ~blacklist.given
    /\ Len(events) = 2
    /\ events[1].ev = "leaf" /\ events[1].node = 3
    /\ events[2].ev = "leaf" /\ events[2].node = 4

\* C10: with a bounded max_depth, once the running index has exceeded
\* max_depth at some level, no process_leaf call follows in the walk.
C10_CeilingEndsWalk ==
    max_depth # Unbounded =>
        \A a, b \in DOMAIN events :
            (a < b /\ events[a].ev = "break") => events[b].ev # "leaf"

\* the node and its ancestors by parent references
SelfAndAncestors(n) ==
    {Up(n, k) : k \in 0..Cardinality(DOMAIN parent)} \ {None}

\* C11: in a walk with a whitelist and/or a blacklist, process_leaf is only
\* called on a node that, with every one of its ancestors, is in the whitelist
\* (when one is given) and not in the blacklist (when one is given); on the
\* forest of A(0), B(1), C(2), D(1) the blacklist [D] yields exactly [C].
C11_FilteredSubtrees ==
    /\ \A e \in LeafCalls :
          \A a \in SelfAndAncestors(events[e].node) :
              /\ whitelist.given => a \in whitelist.items
              /\ blacklist.given => a \notin blacklist.items
    /\ (/\ ExampleForest /\ pc = "walked"
        /\ ~whitelist.given /\ blacklist = [given |-> TRUE, items |-> {4}])
           => VisitedNodes(events) = <<3>>

\* the example forest walked with the blacklist [D]: one process_leaf call, on C
C11_Witness ==
    /\ ExampleForest /\ pc = "walked"
    /\ ~whitelist.given /\ blacklist = [given |-> TRUE, items |-> {4}]
    /\ Len(events) = 1 /\ events[1].ev = "leaf" /\ events[1].node = 3

\* C12: the index passed to process_leaf is the start index of the walk (0)
\* plus the number of nodes enumerated before that leaf at any level.
C12_GlobalCounter ==
    \A e \in LeafCalls : events[e].i = 0 + events[e].seen

\* ------------------------------------------------------------------ C13, C14
\* the last call was insert_child_adjacent
AdjacentCall == pc = "called" /\ call.op = "insert_child_adjacent"

\* the children of the receiver before the call
ChildrenBefore == call.before.children[call.self]

\* the list s without its element at position j (1-based)
Without(s, j) == SubSeq(s, 1, j - 1) \o SubSeq(s, j + 1, Len(s))

\* C13: insert_child_adjacent on a parent none of whose children equals
\* existing returns -1 and leaves the children list (and every other field)
\* as it was, for both directions.
C13_AdjacentMiss ==
    (AdjacentCall /\ \A k \in 1..Len(ChildrenBefore) : ChildrenBefore[k] # call.existing)
        => /\ call.ret = -1
           /\ children = call.before.children
           /\ parent = call.before.parent
           /\ depth = call.before.depth

C13_Witness ==
    /\ AdjacentCall
    /\ Len(ChildrenBefore) = 2
    /\ \A k \in 1..Len(ChildrenBefore) : ChildrenBefore[k] # call.existing
    /\ call.direction = -1
    /\ call.ret = -1
    /\ children[call.self] = ChildrenBefore

\* C14: when existing is among the children, the node is placed immediately
\* before it (direction -1) or immediately after it (direction +1), the other
\* children keep their order, and the returned index is where the node sits.
C14_AdjacentPlacement ==
    (AdjacentCall /\ \E k \in 1..Len(ChildrenBefore) : ChildrenBefore[k] = call.existing)
        => \E j \in 1..Len(children[call.self]) :
              /\ children[call.self][j] = call.node
              /\ Without(children[call.self], j) = ChildrenBefore
              /\ call.direction = -1 =>
                     (j < Len(children[call.self]) /\ children[call.self][j + 1] = call.existing)
              /\ call.direction = 1 =>
                     (j > 1 /\ children[call.self][j - 1] = call.existing)
              /\ call.ret = j - 1

\* ------------------------------------------------------------------------ C15
\* C15: after link_nodes and populate_hierarchy completed without error on
\* fresh nodes whose first depth is 0, a node has no parent if and only if its
\* depth is 0, and no node of depth 0 occurs in any children list.
C15_RootsFormForest ==
    (pc = "done" /\ FirstDepthZero) =>
        /\ \A n \in DOMAIN parent : parent[n] = None <=> depth[n] = 0
        /\ \A n \in DOMAIN children : \A c \in ChildrenOf(n) : depth[c] # 0

\* a completed build with two roots, the second after a node of depth 2
C15_Witness ==
    /\ pc = "done" /\ FirstDepthZero
    /\ \E k \in 3..Len(nodes) :
          /\ depth[nodes[k]] = 0 /\ depth[nodes[k - 1]] = 2
          /\ parent[nodes[k]] = None /\ parent[nodes[k - 1]] # None

\* ------------------------------------------------------------------------ C16
\* C16: when populate_hierarchy aborts at the node at position k (the i-th
\* iteration, counting from 0) of a list of fresh nodes linked by link_nodes,
\* every node at position k or later still has no parent and no children, as
\* before the call, and every node before k has the parent the pass gave it
\* (none for depth 0, one otherwise).
C16_AbortLeavesRest ==
    pc = "failed" =>
        /\ \A p \in (i + 1)..Len(nodes) :
              parent[nodes[p]] = None /\ children[nodes[p]] = <<>>
        /\ \A p \in 1..i : parent[nodes[p]] = None <=> depth[nodes[p]] = 0

\* ------------------------------------------------------------------------ C17
\* the position of node n in the input list
Pos(n) == CHOOSE p \in 1..Len(nodes) : nodes[p] = n

\* the number of times n occurs in the list s
Count(s, n) == Cardinality({j \in DOMAIN s : s[j] = n})

\* C17: after a successful link_nodes and populate_hierarchy on fresh nodes, a
\* node occurs exactly once in the children of its parent and in no other
\* children list, and every children list is in increasing input position.
C17_ParentChildrenAgree ==
    pc = "done" =>
        /\ \A p \in DOMAIN children : \A n \in DOMAIN parent :
              Count(children[p], n) = IF parent[n] = p THEN 1 ELSE 0
        /\ \A p \in DOMAIN children : \A j, k \in DOMAIN children[p] :
              j < k => Pos(children[p][j]) < Pos(children[p][k])

\* a completed build with a node whose two children are not neighbours in the list
C17_Witness ==
    /\ pc = "done"
    /\ \E p \in DOMAIN children :
          /\ Len(children[p]) >= 2
          /\ Pos(children[p][2]) > Pos(children[p][1]) + 1
          /\ parent[children[p][1]] = p /\ parent[children[p][2]] = p

\* ------------------------------------------------------------------------ C18
\* the last position of the block that starts at position p: the one before the
\* first later node that is not deeper than the node at p, or the end of the list
BlockEnd(p) ==
    LET later == {q \in (p + 1)..Len(nodes) : depth[nodes[q]] <= depth[nodes[p]]}
    IN  IF later = {} THEN Len(nodes) ELSE Min(later) - 1

\* all descendants of n along children
Descendants(n) == Down(ChildrenOf(n), Cardinality(DOMAIN children))

\* C18: after a successful build on a list whose first depth is 0, the
\* descendants of the node at position p are exactly the nodes at positions
\* p + 1 .. BlockEnd(p).
C18_SubtreeIsBlock ==
    (pc = "done" /\ FirstDepthZero) =>
        \A p \in 1..Len(nodes) :
            Descendants(nodes[p]) = {nodes[q] : q \in (p + 1)..BlockEnd(p)}

\* a completed build with a subtree of three nodes or more that ends before
\* the end of the list, at a node that is not a root
C18_Witness ==
    /\ pc = "done" /\ FirstDepthZero
    /\ \E p \in 1..Len(nodes) :
          /\ BlockEnd(p) >= p + 2
          /\ BlockEnd(p) < Len(nodes)
          /\ depth[nodes[BlockEnd(p) + 1]] > 0
          /\ Cardinality(Descendants(nodes[p])) = BlockEnd(p) - p

\* ------------------------------------------------------------------------ C19
\* the loop of populate_hierarchy has processed at least one node
InPass == pc \in {"populating", "failed", "done"} /\ i >= 1

\* the loop is about to process a node of nonzero depth
AtNonRoot == pc = "populating" /\ i < Len(nodes) /\ depth[nodes[i + 1]] # 0

\* the depth_delta of the node the loop is about to process
NextDelta == depth_delta(nodes[i + 1], depth, previous_node)

\* C19: on a list with first depth 0 whose depth increases are all exactly +1,
\* once a node of depth d >= 1 is processed the stack holds d entries, the
\* node's ancestors of depths 0 .. d-1 from bottom to top; the stack holds one
\* node of depth 0, at its bottom; it is not empty when its top is read; and an
\* ascent asks for no more pops than there are entries above the root.
C19_AncestorStack ==
    WellFormed =>
        /\ (InPass /\ error = "none" /\ depth[nodes[i]] >= 1) =>
              /\ Len(parent_stack) = depth[nodes[i]]
              /\ \A j \in 1..Len(parent_stack) :
                    /\ depth[parent_stack[j]] = j - 1
                    /\ parent_stack[j] = Up(nodes[i], depth[nodes[i]] - j + 1)
        /\ InPass =>
              /\ Cardinality({j \in DOMAIN parent_stack : depth[parent_stack[j]] = 0}) = 1
              /\ depth[parent_stack[1]] = 0
        /\ error # "IndexError"
        /\ (AtNonRoot /\ NextDelta <= 0) =>
              DelReverseSlice(parent_stack, -1 + NextDelta) # <<>>
        /\ (AtNonRoot /\ NextDelta < 0) => -NextDelta <= Len(parent_stack) - 1

\* in the pass of a well-formed list, after an ascent by two levels out of
\* depth 3 to a node of depth 1, with the root alone on the stack
C19_Witness ==
    /\ WellFormed /\ pc = "populating" /\ i >= 4
    /\ depth[nodes[i]] = 1 /\ depth[nodes[i - 1]] = 3
    /\ Len(parent_stack) = 1
    /\ parent_stack[1] = parent[nodes[i]]

\* ------------------------------------------------------------------------ C20
\* the node the loop is about to process, or failed at
Current == nodes[i + 1]

\* the loop is at a node of nonzero depth that has no previous link
AtUnlinked ==
    /\ pc \in {"populating", "failed"} /\ i < Len(nodes)
    /\ depth[Current] # 0
    /\ previous_node[Current] = None

\* C20: at a node of nonzero depth whose previous link is absent, depth_delta
\* is 1 whatever the depth of the node, the branch taken is the child branch
\* with the parent read from the previous link, and the pass does not end in
\* the invalid-hierarchy error there.
C20_MissingPredecessor ==
    AtUnlinked =>
        /\ depth_delta(Current, depth, previous_node) = 1
        /\ Branch(depth_delta(Current, depth, previous_node)) = "child"
        /\ choose_parent(parent_stack, Current, depth, previous_node).parent
               = previous_node[Current]
        /\ pc = "failed" => (error # "ValueError" /\ error_delta = 0)

\* the pass ended at an unlinked node of depth 2 or more, after it gave
\* a parent to a linked node before it
C20_Witness ==
    /\ AtUnlinked /\ pc = "failed"
    /\ depth[Current] >= 2
    /\ error = "AttributeError"
    /\ \E p \in 1..i : parent[nodes[p]] # None

\* ------------------------------------------------------------------------ C21
\* a finished walk without ceiling, without filters, whose visitor never stops
PlainWalkDone ==
    /\ pc = "walked"
    /\ max_depth = Unbounded /\ stop_on = {}
    /\ ~whitelist.given /\ ~blacklist.given

\* C21: the unbounded, unfiltered walk of a built forest with a visitor that
\* always returns false calls process_leaf exactly once for every childless
\* node and for no other node, in increasing order of the position of the
\* nodes in the input list.
C21_PreOrderLeaves ==
    PlainWalkDone =>
        /\ \A n \in DOMAIN children :
              Count(VisitedNodes(events), n) = IF children[n] = <<>> THEN 1 ELSE 0
        /\ \A a, b \in DOMAIN VisitedNodes(events) :
              a < b => Pos(VisitedNodes(events)[a]) < Pos(VisitedNodes(events)[b])

\* ------------------------------------------------------------------------ C22
\* C22: insert_child_adjacent returns -1 only on a miss: a call that found
\* existing among the children, and so inserted the node, returns another value.
C22_SentinelOnlyOnMiss ==
    (AdjacentCall /\ call.ret = -1) =>
        /\ \A k \in 1..Len(ChildrenBefore) : ChildrenBefore[k] # call.existing
        /\ children[call.self] = ChildrenBefore

\* ------------------------------------------------------------------------ C23
\* the field f differs from its value fb before the call at most at the receiver
OnlyReceiver(f, fb) ==
    /\ DOMAIN f = DOMAIN fb
    /\ \A n \in DOMAIN f : n # call.self => f[n] = fb[n]

ChildrenMutators == {"insert_child", "insert_child_adjacent", "append_child", "remove_child"}

\* C23: insert_child, insert_child_adjacent, append_child and remove_child
\* change nothing but the children list of the receiver; change_parent changes
\* nothing but the parent of the receiver (no children list); change_depth
\* changes nothing but the depth of the receiver; no mutator changes a link.
C23_NarrowFrame ==
    pc = "called" =>
        /\ previous_node = call.before.previous_node
        /\ next_node = call.before.next_node
        /\ call.op \in ChildrenMutators =>
              /\ parent = call.before.parent
              /\ depth = call.before.depth
              /\ OnlyReceiver(children, call.before.children)
        /\ call.op = "change_parent" =>
              /\ children = call.before.children
              /\ depth = call.before.depth
              /\ OnlyReceiver(parent, call.before.parent)
              /\ parent[call.self] = call.node
        /\ call.op = "change_depth" =>
              /\ children = call.before.children
              /\ parent = call.before.parent
              /\ OnlyReceiver(depth, call.before.depth)
              /\ depth[call.self] = call.index

\* change_depth gave a new depth to a node that has a parent with children,
\* among nodes of another depth
C23_Witness ==
    /\ pc = "called" /\ call.op = "change_depth"
    /\ call.before.parent[call.self] # None
    /\ call.before.children[call.before.parent[call.self]] # <<>>
    /\ depth[call.self] = 3 /\ call.before.depth[call.self] = 1
    /\ \E n \in DOMAIN depth : n # call.self /\ depth[n] = 0

\* ------------------------------------------------------------------------ C24
\* C24: in every state of a build on fresh nodes of any non-negative depths
\* (first depth 0 or not, completed, running or aborted), the parent of a node
\* that has one stands at an earlier position of the input list than the node.
C24_ParentEarlier ==
    \A n \in DOMAIN parent :
        parent[n] # None => Pos(parent[n]) < Pos(n)

\* ------------------------------------------------------------------------ C25
\* the list a node is enumerated in: its parent's children, or the roots
Siblings(n) ==
    IF parent[n] = None THEN Roots(nodes, depth) ELSE children[parent[n]]

\* the 0-based position of a node within its sibling list
SiblingIndex(n) == CHOOSE k \in 0..Len(Siblings(n)) : Siblings(n)[k + 1] = n

\* the positions within their sibling lists of a node and all its ancestors, added up
RECURSIVE PathSum(_)
PathSum(n) == IF n = None THEN 0 ELSE SiblingIndex(n) + PathSum(parent[n])

\* C25: in a walk with a ceiling max_depth >= 0 started with start = 0, every
\* index passed to process_leaf is at most max_depth and equals the sum of the
\* positions, each within its own sibling list, of the leaf and its ancestors.
C25_IndexIsPathSum ==
    max_depth # Unbounded =>
        \A e \in LeafCalls :
            /\ events[e].i <= max_depth
            /\ events[e].i = PathSum(events[e].node)

\* a walk under a ceiling of 1 or more reached a leaf whose index is the
\* ceiling, made of a nonzero position of the leaf and one of its parent
C25_Witness ==
    /\ max_depth # Unbounded /\ max_depth >= 1
    /\ \E e \in LeafCalls :
          /\ events[e].i = max_depth
          /\ parent[events[e].node] # None
          /\ SiblingIndex(events[e].node) >= 1
          /\ SiblingIndex(parent[events[e].node]) >= 1

\* ------------------------------------------------------------------------ C26
\* a call of populate_hierarchy after the first one is running or has ended
Repeating == passes >= 1 /\ pc \in {"populating", "failed", "done"}

\* C26: on a linked, well-formed list every call of populate_hierarchy after
\* the first gives each node the parent it already has, and appends each
\* non-root node to its parent's children again: after k calls that returned
\* normally a non-root node occurs exactly k times in the children of its
\* parent (and in no other list).
C26_RepeatedBuild ==
    /\ [][(WellFormed /\ Repeating) => parent' = parent]_vars
    /\ [](WellFormed =>
            /\ (Repeating => error = "none")
            /\ (pc = "done" =>
                   \A n \in DOMAIN parent : \A p \in DOMAIN children :
                       Count(children[p], n) =
                           IF parent[n] = p /\ depth[n] # 0 THEN passes ELSE 0))

\* three calls returned on a well-formed list with a node of depth 2, which
\* stands three times in the children of its parent
C26_Witness ==
    /\ WellFormed /\ pc = "done" /\ passes = 3
    /\ \E n \in DOMAIN parent :
          /\ depth[n] = 2 /\ parent[n] # None
          /\ Count(children[parent[n]], n) = 3

====
